---- MODULE Spec2Model ----
(***************************************************************************)
(* A model of management/web_update.py: the selection of the domains the   *)
(* box serves web for, the resolution and provisioning of each domain's    *)
(* SSL files, the rendering of one nginx server block per domain, and the  *)
(* compare/write/reload policy of do_web_update.                           *)
(*                                                                         *)
(* Text is a sequence of tokens.  A token is a record [tag, dom, arg]; a   *)
(* path on disk is a record [top, dir, file].  Domain names are the        *)
(* numbers 1..NumDomains, and their numeric order stands for the order of  *)
(* the names.                                                              *)
(***************************************************************************)
EXTENDS Integers, Sequences, FiniteSets, TLC

\* ------------------------------------------------------------------ bounds

NumDomains == 3

MaxTemplateLen == 3

\* How many calls of do_web_update, and how many changes of its inputs, a
\* behaviour holds.
MaxCalls == 3

MaxChanges == 1

Domains == 1..NumDomains

\* A value of the domain type that names no domain.
NoDomain == NumDomains + 1

VARIABLES
    env,            \* the environment record (PRIMARY_HOSTNAME)
    mail_domains,   \* what get_mail_domains(env) returns
    dns,            \* what get_custom_dns_config(env) returns
    files,          \* the paths that exist under STORAGE_ROOT
    cert_ok,        \* the domains check_certificate reports "OK" for
    custom,         \* STORAGE_ROOT/www/custom.yaml
    template,       \* conf/nginx.conf
    local_conf,     \* /etc/nginx/conf.d/local.conf
    pc,             \* where do_web_update stands
    domains,        \* do_web_update: the list get_web_domains returned
    idx,            \* do_web_update: position of the loop in domains
    nginx_conf,     \* do_web_update: the text built so far
    result,         \* what the last operation returned or raised
    output,         \* the value the last function call returned
    last_ensure,    \* the last call of ensure_ssl_certificate_exists
    call,           \* the current do_web_update call: what it did
    prev_call,      \* the do_web_update call before it
    changed,        \* an input changed since the last call ended
    stale,          \* a reload failed after a write, no input changed since
    ncalls,         \* calls of do_web_update so far
    nchanges        \* changes of the inputs so far

vars == <<env, mail_domains, dns, files, cert_ok, custom, template, local_conf,
          pc, domains, idx, nginx_conf, result, output, last_ensure, call,
          prev_call, changed, stale, ncalls, nchanges>>

\* ------------------------------------------------------------ sequences

Range(s) == {s[i] : i \in 1..Len(s)}

RECURSIVE SortSet(_)
SortSet(S) ==
    IF S = {} THEN <<>>
    ELSE LET m == CHOOSE x \in S : \A y \in S : x <= y
         IN  <<m>> \o SortSet(S \ {m})

\* ------------------------------------------------- the DNS override table

Absent == "<absent>"

\* A value of the table: a plain string, or a mapping of record types.  A
\* domain without an entry holds NoOverride.
StrOverride(s) == [type |-> "str", value |-> s, A |-> Absent, AAAA |-> Absent, MX |-> FALSE]

DictOverride(a, aaaa, mx) == [type |-> "dict", value |-> "", A |-> a, AAAA |-> aaaa, MX |-> mx]

NoOverride == [type |-> "none", value |-> "", A |-> Absent, AAAA |-> Absent, MX |-> FALSE]

RecordValues == {"local", "203.0.113.7"}

\* The values the table is filled with: both strings, and mappings with A,
\* AAAA and another record type present or absent.
OverrideValues ==
    {StrOverride(s) : s \in RecordValues}
    \cup {DictOverride(a, Absent, FALSE) : a \in RecordValues}
    \cup {DictOverride(Absent, aaaa, FALSE) : aaaa \in RecordValues}
    \cup {DictOverride("local", aaaa, FALSE) : aaaa \in RecordValues}
    \cup {DictOverride(a, Absent, TRUE) : a \in {Absent, "local"}}

DnsItems(table) == {d \in Domains : table[d] # NoOverride}

\* ----------------------------------------------------------- get_web_domains

\* The variant that looks at the A record only.
PointsElsewhereAOnly(value) ==
    \/ (value.type = "str" /\ value.value # "local")
    \/ (value.type = "dict" /\ value.A # Absent /\ value.A # "local")

\* The condition of lines 30-32: the override maps the domain away from the box.
PointsElsewhere(value) ==
    \/ (value.type = "str" /\ value.value # "local")
    \/ (value.type = "dict" /\ value.A # Absent /\ value.A # "local")
    \/ (value.type = "dict" /\ value.AAAA # Absent /\ value.AAAA # "local")

\* utils.sort_domains: PRIMARY_HOSTNAME first, the others in the order of
\* their names.
sort_domains(S, e) ==
    IF e.PRIMARY_HOSTNAME \in S
    THEN <<e.PRIMARY_HOSTNAME>> \o SortSet(S \ {e.PRIMARY_HOSTNAME})
    ELSE SortSet(S)

get_web_domains(e, mail, table) ==
    LET all == {e.PRIMARY_HOSTNAME} \cup mail
        removed == {d \in DnsItems(table) : d \in all /\ PointsElsewhere(table[d])}
    IN  sort_domains(all \ removed, e)

\* ------------------------------------------------------------------ paths

\* A path below STORAGE_ROOT.  dir is the domain whose safe_domain_name names
\* the directory, or NoDomain for a file that is in no domain's directory.
Path(top, dir, file) == [top |-> top, dir |-> dir, file |-> file]

dirname(p) == Path(p.top, p.dir, "")

ssl_private_key == Path("ssl", NoDomain, "ssl_private_key.pem")

alt_key_path(domain) == Path("ssl", domain, "private_key.pem")

ssl_certificate_primary == Path("ssl", NoDomain, "ssl_certificate.pem")

domain_certificate_path(domain) == Path("ssl", domain, "ssl_certificate.pem")

primary_csr_path == Path("ssl", NoDomain, "ssl_cert_sign_req.csr")

domain_csr_path(domain) == Path("ssl", domain, "certificate_signing_request.csr")

web_root_path(domain) == Path("www", domain, "")

default_web_root == Path("www", NoDomain, "default")

\* ------------------------------------------------------------- get_web_root

get_web_root(domain, fs) ==
    IF web_root_path(domain) \in fs THEN web_root_path(domain) ELSE default_web_root

\* ----------------------------------------------------- get_domain_ssl_files

\* whats_next.check_certificate on the primary certificate.
check_certificate(domain, ok) == IF domain \in ok THEN "OK" ELSE "not valid for the domain"

\* The variant that reuses the primary certificate whatever key is in use.
get_domain_ssl_files_any_key(domain, e, fs, ok) ==
    LET ssl_key_is_alt == domain # e.PRIMARY_HOSTNAME /\ alt_key_path(domain) \in fs
    IN  [ssl_key |-> IF ssl_key_is_alt THEN alt_key_path(domain) ELSE ssl_private_key,
         ssl_certificate |->
            IF domain = e.PRIMARY_HOSTNAME THEN ssl_certificate_primary
            ELSE IF check_certificate(domain, ok) = "OK" THEN ssl_certificate_primary
            ELSE domain_certificate_path(domain),
         csr_path |-> IF domain = e.PRIMARY_HOSTNAME THEN primary_csr_path
                      ELSE domain_csr_path(domain)]

get_domain_ssl_files(domain, e, fs, ok) ==
    LET ssl_key_is_alt == domain # e.PRIMARY_HOSTNAME /\ alt_key_path(domain) \in fs
    IN  [ssl_key |-> IF ssl_key_is_alt THEN alt_key_path(domain) ELSE ssl_private_key,
         ssl_certificate |->
            IF domain = e.PRIMARY_HOSTNAME THEN ssl_certificate_primary
            ELSE IF ~ssl_key_is_alt /\ check_certificate(domain, ok) = "OK"
                 THEN ssl_certificate_primary
            ELSE domain_certificate_path(domain),
         csr_path |-> IF domain = e.PRIMARY_HOSTNAME THEN primary_csr_path
                      ELSE domain_csr_path(domain)]

\* -------------------------------------------- ensure_ssl_certificate_exists

\* The two openssl command lines.
openssl_req(ssl_key, csr_path) == [cmd |-> "openssl req -new", key |-> ssl_key, out |-> csr_path]

openssl_x509(ssl_key, ssl_certificate) ==
    [cmd |-> "openssl x509 -req", key |-> ssl_key, out |-> ssl_certificate]

\* What the two openssl processes can do: both exit 0, the first exits
\* non-zero, the second exits non-zero.
ExitCodes == {<<0, 0>>, <<1, 0>>, <<0, 1>>}

\* What a call does: the shell calls it makes, the files afterwards, and
\* whether check_call raised.
Ensured(calls, fs, raised) == [calls |-> calls, files |-> fs, raised |-> raised]

\* The variant without the test for an existing certificate.
ensure_ssl_certificate_exists_always(domain, ssl_key, ssl_certificate, csr_path, e, fs, exits) ==
    IF domain = e.PRIMARY_HOSTNAME THEN Ensured(<<>>, fs, FALSE)
    ELSE IF ssl_certificate = ssl_certificate_primary THEN Ensured(<<>>, fs, FALSE)
    ELSE LET made == fs \cup {dirname(ssl_certificate)}
             req == openssl_req(ssl_key, csr_path)
             x509 == openssl_x509(ssl_key, ssl_certificate)
         IN  IF exits[1] # 0 THEN Ensured(<<req>>, made, TRUE)
             ELSE IF exits[2] # 0 THEN Ensured(<<req, x509>>, made \cup {csr_path}, TRUE)
             ELSE Ensured(<<req, x509>>, made \cup {csr_path, ssl_certificate}, FALSE)

ensure_ssl_certificate_exists(domain, ssl_key, ssl_certificate, csr_path, e, fs, exits) ==
    IF domain = e.PRIMARY_HOSTNAME THEN Ensured(<<>>, fs, FALSE)
    ELSE IF ssl_certificate = ssl_certificate_primary THEN Ensured(<<>>, fs, FALSE)
    ELSE IF ssl_certificate \in fs THEN Ensured(<<>>, fs, FALSE)
    ELSE LET made == fs \cup {dirname(ssl_certificate)}
             req == openssl_req(ssl_key, csr_path)
             x509 == openssl_x509(ssl_key, ssl_certificate)
         IN  IF exits[1] # 0 THEN Ensured(<<req>>, made, TRUE)
             ELSE IF exits[2] # 0 THEN Ensured(<<req, x509>>, made \cup {csr_path}, TRUE)
             ELSE Ensured(<<req, x509>>, made \cup {csr_path, ssl_certificate}, FALSE)

\* --------------------------------------------------------------------- text

Tok(tag, dom, arg) == [tag |-> tag, dom |-> dom, arg |-> arg]

HOSTNAME == Tok("$HOSTNAME", NoDomain, "")

ROOT == Tok("$ROOT", NoDomain, "")

SSL_KEY == Tok("$SSL_KEY", NoDomain, "")

SSL_CERTIFICATE == Tok("$SSL_CERTIFICATE", NoDomain, "")

Marker == Tok("# ADDITIONAL DIRECTIVES HERE\n", NoDomain, "")

Text(s) == Tok("text", NoDomain, s)

\* A domain name and a path, written into the text.
DomainText(domain) == Tok("domain", domain, "")

PathText(p) == Tok(p.top, p.dir, p.file)

\* "\tlocation / {\n\t\tproxy_pass %s;\n\t}\n" % proxy
ProxyBlock(proxy) == Tok("\tlocation / {\n\t\tproxy_pass %s;\n\t}\n", NoDomain, proxy)

\* str.replace(old, new)
replace(text, old, new) == [i \in 1..Len(text) |-> IF text[i] = old THEN new ELSE text[i]]

HasMarker(text) == \E i \in 1..Len(text) : text[i] = Marker

\* re.split("(# ADDITIONAL DIRECTIVES HERE\n)", text): the pieces between the
\* markers, with every marker kept as a piece of its own.
RECURSIVE re_split(_)
re_split(text) ==
    IF ~HasMarker(text) THEN <<text>>
    ELSE LET i == CHOOSE k \in 1..Len(text) :
                      text[k] = Marker /\ \A j \in 1..(k - 1) : text[j] # Marker
         IN  <<SubSeq(text, 1, i - 1), <<Marker>>>> \o re_split(SubSeq(text, i + 1, Len(text)))

\* "".join(parts)
RECURSIVE join(_)
join(parts) == IF parts = <<>> THEN <<>> ELSE Head(parts) \o join(Tail(parts))

\* ------------------------------------------------------------ custom.yaml

NoEntry == [present |-> FALSE, has_proxy |-> FALSE, proxy |-> ""]

EntryWithoutProxy == [present |-> TRUE, has_proxy |-> FALSE, proxy |-> ""]

EntryWithProxy(target) == [present |-> TRUE, has_proxy |-> TRUE, proxy |-> target]

NoCustomFile == [exists |-> FALSE, yaml |-> [d \in Domains |-> NoEntry]]

CustomFile(yaml) == [exists |-> TRUE, yaml |-> yaml]

ProxyTarget == "http://localhost:8080"

\* ------------------------------------------------------- make_domain_config

\* The variant that puts the directives in front of the marker.
add_proxy_before(parts, proxy) == [parts EXCEPT ![2] = <<ProxyBlock(proxy)>> \o @]

\* nginx_conf_parts[1] += ... (line 98; the list is indexed from 0 there)
add_proxy(parts, proxy) == [parts EXCEPT ![2] = @ \o <<ProxyBlock(proxy)>>]

\* Lines 84-88.
substitute(tpl, domain, root, ssl_key, ssl_certificate) ==
    replace(replace(replace(replace(tpl,
        HOSTNAME, DomainText(domain)),
        ROOT, PathText(root)),
        SSL_KEY, PathText(ssl_key)),
        SSL_CERTIFICATE, PathText(ssl_certificate))

\* What a call does: the text it returns or the exception it raises, the
\* files afterwards, and the call of ensure_ssl_certificate_exists it made.
make_domain_config(domain, tpl, e, fs, ok, overlay, exits) ==
    LET root == get_web_root(domain, fs)
        ssl == get_domain_ssl_files(domain, e, fs, ok)
        ens == ensure_ssl_certificate_exists(domain, ssl.ssl_key, ssl.ssl_certificate,
                                             ssl.csr_path, e, fs, exits)
        args == [domain |-> domain, ssl_key |-> ssl.ssl_key,
                 ssl_certificate |-> ssl.ssl_certificate, csr_path |-> ssl.csr_path,
                 existed |-> ssl.ssl_certificate \in fs, alt_key |-> alt_key_path(domain) \in fs,
                 check |-> check_certificate(domain, ok), exits |-> exits,
                 calls |-> ens.calls, raised |-> ens.raised]
        conf == substitute(tpl, domain, root, ssl.ssl_key, ssl.ssl_certificate)
        parts == re_split(conf)
        entry == overlay.yaml[domain]
        proxied == overlay.exists /\ entry.present /\ entry.has_proxy
    IN  IF ens.raised
        THEN [raised |-> "CalledProcessError: openssl", text |-> <<>>,
              files |-> ens.files, ensure |-> args]
        ELSE IF proxied /\ Len(parts) < 2
        THEN [raised |-> "IndexError", text |-> <<>>, files |-> ens.files, ensure |-> args]
        ELSE [raised |-> "",
              text |-> join(IF proxied THEN add_proxy(parts, entry.proxy) ELSE parts),
              files |-> ens.files, ensure |-> args]

\* ------------------------------------------------------------ initial values

NoFile == [exists |-> FALSE, text |-> <<>>]

File(text) == [exists |-> TRUE, text |-> text]

NoOutput == [op |-> "none", domain |-> NoDomain, value |-> <<>>]

NoEnsure ==
    [domain |-> NoDomain, ssl_key |-> ssl_private_key,
     ssl_certificate |-> ssl_certificate_primary, csr_path |-> primary_csr_path,
     existed |-> FALSE, alt_key |-> FALSE, check |-> "", exits |-> <<0, 0>>,
     calls |-> <<>>, raised |-> FALSE]

NoCall ==
    [writes |-> 0, reloads |-> 0, attempted |-> <<>>, file_before |-> NoFile,
     files_before |-> {}, consecutive |-> FALSE, after_failed_reload |-> FALSE]

NoPrevCall == [status |-> "none", writes |-> 0, reloads |-> 0]

\* The files the set-up of the box leaves: the shared key and the primary
\* certificate.
SetUpFiles == {ssl_private_key, ssl_certificate_primary}

\* conf/nginx-top.conf
NginxTop == <<Text("nginx-top.conf")>>

\* conf/nginx.conf
NginxTemplate == <<HOSTNAME, ROOT, SSL_KEY, SSL_CERTIFICATE, Marker, Text("tail")>>

Environments == [PRIMARY_HOSTNAME : Domains]

NoDns == [d \in Domains |-> NoOverride]

inputs == <<env, mail_domains, dns, cert_ok, custom, template>>

update == <<pc, domains, idx, nginx_conf, result, call, prev_call, changed, stale,
            ncalls, nchanges>>

\* ======================================================== get_web_domains

InitDomains ==
    /\ env \in Environments
    /\ mail_domains \in SUBSET Domains
    /\ dns \in [Domains -> OverrideValues \cup {NoOverride}]
    /\ files = SetUpFiles
    /\ cert_ok = {}
    /\ custom = NoCustomFile
    /\ template = NginxTemplate
    /\ local_conf = NoFile
    /\ pc = "idle"
    /\ domains = <<>>
    /\ idx = 1
    /\ nginx_conf = <<>>
    /\ result = "none"
    /\ output = NoOutput
    /\ last_ensure = NoEnsure
    /\ call = NoCall
    /\ prev_call = NoPrevCall
    /\ changed = FALSE
    /\ stale = FALSE
    /\ ncalls = 0
    /\ nchanges = 0

CallGetWebDomains ==
    /\ output = NoOutput
    /\ output' = [op |-> "get_web_domains", domain |-> NoDomain,
                  value |-> get_web_domains(env, mail_domains, dns)]
    /\ UNCHANGED <<inputs, update, files, local_conf, last_ensure>>

NextDomains == CallGetWebDomains

SpecDomains == InitDomains /\ [][NextDomains]_vars

\* C1 as stated: a domain is in the list returned by get_web_domains iff it
\* is the primary hostname or a mail domain, and it has no entry in the
\* override table or its entry is exactly "local".
C1_OnlyLocalSentinelKeeps ==
    output.op = "get_web_domains" =>
        \A d \in Domains :
            (d \in Range(output.value)) <=>
                /\ (d = env.PRIMARY_HOSTNAME \/ d \in mail_domains)
                /\ (dns[d] = NoOverride \/ dns[d] = StrOverride("local"))

\* C1 as amended: a domain is in the list returned by get_web_domains iff it
\* is the primary hostname or a mail domain, and it has no entry in the
\* override table, or its entry is the string "local", or its entry is a
\* record mapping in which A and AAAA are each absent or "local" (whatever
\* other record types it holds).
C1_SelectedDomains ==
    output.op = "get_web_domains" =>
        \A d \in Domains :
            (d \in Range(output.value)) <=>
                /\ (d = env.PRIMARY_HOSTNAME \/ d \in mail_domains)
                /\ \/ dns[d].type = "none"
                   \/ (dns[d].type = "str" /\ dns[d].value = "local")
                   \/ /\ dns[d].type = "dict"
                      /\ dns[d].A \in {Absent, "local"}
                      /\ dns[d].AAAA \in {Absent, "local"}

\* A mail domain whose mapping holds only another record type is kept, and
\* one whose AAAA record alone points elsewhere is removed.
C1_Witness ==
    /\ output.op = "get_web_domains"
    /\ \E d \in Range(output.value) : dns[d] = DictOverride(Absent, Absent, TRUE)
    /\ \E d \in mail_domains :
          /\ dns[d] = DictOverride("local", "203.0.113.7", FALSE)
          /\ d \notin Range(output.value)

\* C2: the list returned by get_web_domains contains the primary hostname
\* and has it as its first element, whatever the override table holds.
C2_PrimaryFirst ==
    output.op = "get_web_domains" =>
        /\ Len(output.value) >= 1
        /\ output.value[1] = env.PRIMARY_HOSTNAME

\* ============= get_domain_ssl_files and ensure_ssl_certificate_exists

\* The files of the ssl tree whose existence the two functions look at.
SslFiles ==
    {ssl_certificate_primary}
    \cup {alt_key_path(d) : d \in Domains}
    \cup {domain_certificate_path(d) : d \in Domains}

InitSsl ==
    /\ env \in Environments
    /\ mail_domains = {}
    /\ dns = NoDns
    /\ files \in {{ssl_private_key} \cup fs : fs \in SUBSET SslFiles}
    /\ cert_ok \in SUBSET Domains
    /\ custom = NoCustomFile
    /\ template = NginxTemplate
    /\ local_conf = NoFile
    /\ pc = "idle"
    /\ domains = <<>>
    /\ idx = 1
    /\ nginx_conf = <<>>
    /\ result = "none"
    /\ output = NoOutput
    /\ last_ensure = NoEnsure
    /\ call = NoCall
    /\ prev_call = NoPrevCall
    /\ changed = FALSE
    /\ stale = FALSE
    /\ ncalls = 0
    /\ nchanges = 0

CallGetDomainSslFiles(domain) ==
    /\ output = NoOutput
    /\ last_ensure = NoEnsure
    /\ output' = [op |-> "get_domain_ssl_files", domain |-> domain,
                  value |-> get_domain_ssl_files(domain, env, files, cert_ok)]
    /\ UNCHANGED <<inputs, update, files, local_conf, last_ensure>>

CallEnsure(domain, ssl_key, ssl_certificate, exits) ==
    LET csr_path == IF domain = env.PRIMARY_HOSTNAME THEN primary_csr_path
                    ELSE domain_csr_path(domain)
        ens == ensure_ssl_certificate_exists(domain, ssl_key, ssl_certificate, csr_path,
                                             env, files, exits)
    IN  /\ last_ensure = NoEnsure
        /\ output = NoOutput
        /\ last_ensure' =
              [domain |-> domain, ssl_key |-> ssl_key, ssl_certificate |-> ssl_certificate,
               csr_path |-> csr_path, existed |-> ssl_certificate \in files,
               alt_key |-> alt_key_path(domain) \in files,
               check |-> check_certificate(domain, cert_ok), exits |-> exits,
               calls |-> ens.calls, raised |-> ens.raised]
        /\ files' = ens.files
        /\ UNCHANGED <<inputs, update, local_conf, output>>

NextSsl ==
    \/ \E d \in Domains : CallGetDomainSslFiles(d)
    \/ \E d \in Domains, exits \in ExitCodes :
          \E ssl_key \in {ssl_private_key, alt_key_path(d)},
             ssl_certificate \in {ssl_certificate_primary, domain_certificate_path(d)} :
                CallEnsure(d, ssl_key, ssl_certificate, exits)

SpecSsl == InitSsl /\ [][NextSsl]_vars

\* The condition under which C4 has the tool invoked.
MustGenerate(c) ==
    /\ c.domain # env.PRIMARY_HOSTNAME
    /\ c.ssl_certificate # Path("ssl", NoDomain, "ssl_certificate.pem")
    /\ ~c.existed

\* C4 as stated: ensure_ssl_certificate_exists invokes openssl iff the domain
\* is not the primary hostname, the certificate path is not the primary
\* certificate path and no file exists at the certificate path; when it does,
\* it makes exactly two calls, the CSR generation and then the self-signing.
C4_ExactlyTwoCalls ==
    last_ensure.domain # NoDomain =>
        /\ (last_ensure.calls # <<>>) <=> MustGenerate(last_ensure)
        /\ last_ensure.calls # <<>> =>
              /\ Len(last_ensure.calls) = 2
              /\ last_ensure.calls[1].cmd = "openssl req -new"
              /\ last_ensure.calls[2].cmd = "openssl x509 -req"

\* C4 as amended: ensure_ssl_certificate_exists invokes openssl iff the domain
\* is not the primary hostname, the certificate path is not the primary
\* certificate path and no file exists at the certificate path; when it does,
\* the first call is the CSR generation with the given key, and the
\* self-signing follows as the second and last call exactly when the CSR
\* generation exited with 0; a non-zero exit of either call is raised.
C4_InvokesOpenssl ==
    last_ensure.domain # NoDomain =>
        /\ (last_ensure.calls # <<>>) <=> MustGenerate(last_ensure)
        /\ last_ensure.calls = <<>> => ~last_ensure.raised
        /\ last_ensure.calls # <<>> =>
              /\ last_ensure.calls[1] =
                    [cmd |-> "openssl req -new", key |-> last_ensure.ssl_key,
                     out |-> last_ensure.csr_path]
              /\ last_ensure.exits[1] # 0 =>
                    Len(last_ensure.calls) = 1 /\ last_ensure.raised
              /\ last_ensure.exits[1] = 0 =>
                    /\ Len(last_ensure.calls) = 2
                    /\ last_ensure.calls[2] =
                          [cmd |-> "openssl x509 -req", key |-> last_ensure.ssl_key,
                           out |-> last_ensure.ssl_certificate]
                    /\ last_ensure.raised <=> last_ensure.exits[2] # 0

\* A certificate was generated for a domain that had none: both calls ran.
C4_Witness ==
    /\ MustGenerate(last_ensure)
    /\ Len(last_ensure.calls) = 2
    /\ ~last_ensure.raised
    /\ last_ensure.ssl_certificate \in files

\* C5: get_domain_ssl_files returns the shared key and the primary
\* certificate for the primary hostname whatever files exist; for another
\* domain it returns the primary certificate iff the domain has no key file
\* of its own and the checker reports the primary certificate OK for it, and
\* the domain's own certificate path otherwise.
C5_SslFiles ==
    output.op = "get_domain_ssl_files" =>
        LET d == output.domain
            own_key == Path("ssl", d, "private_key.pem") \in files
            primary_cert == Path("ssl", NoDomain, "ssl_certificate.pem")
        IN  IF d = env.PRIMARY_HOSTNAME
            THEN /\ output.value.ssl_key = Path("ssl", NoDomain, "ssl_private_key.pem")
                 /\ output.value.ssl_certificate = primary_cert
            ELSE /\ (output.value.ssl_certificate = primary_cert)
                        <=> (~own_key /\ d \in cert_ok)
                 /\ output.value.ssl_certificate # primary_cert =>
                        output.value.ssl_certificate = Path("ssl", d, "ssl_certificate.pem")

\* A domain with a key of its own that the primary certificate covers gets
\* its own certificate path.
C5_Witness ==
    /\ output.op = "get_domain_ssl_files"
    /\ output.domain # env.PRIMARY_HOSTNAME
    /\ alt_key_path(output.domain) \in files
    /\ output.domain \in cert_ok
    /\ output.value.ssl_certificate = domain_certificate_path(output.domain)

\* ===================================================== make_domain_config

TemplateTokens == {HOSTNAME, ROOT, SSL_KEY, SSL_CERTIFICATE, Marker, Text("tail")}

Templates == UNION {[1..n -> TemplateTokens] : n \in 0..MaxTemplateLen}

\* custom.yaml: missing, without entries, or with an entry for one domain.
CustomFiles ==
    {NoCustomFile, CustomFile([d \in Domains |-> NoEntry])}
    \cup {CustomFile([d \in Domains |-> IF d = 1 THEN entry ELSE NoEntry]) :
            entry \in {EntryWithoutProxy, EntryWithProxy(ProxyTarget)}}

InitRender ==
    /\ env \in Environments
    /\ mail_domains = {}
    /\ dns = NoDns
    /\ files \in {SetUpFiles,
                  SetUpFiles \cup {domain_certificate_path(d) : d \in Domains}
                             \cup {web_root_path(1)}}
    /\ cert_ok = {}
    /\ custom \in CustomFiles
    /\ template \in Templates
    /\ local_conf = NoFile
    /\ pc = "idle"
    /\ domains = <<>>
    /\ idx = 1
    /\ nginx_conf = <<>>
    /\ result = "none"
    /\ output = NoOutput
    /\ last_ensure = NoEnsure
    /\ call = NoCall
    /\ prev_call = NoPrevCall
    /\ changed = FALSE
    /\ stale = FALSE
    /\ ncalls = 0
    /\ nchanges = 0

CallMakeDomainConfig(domain, exits) ==
    LET made == make_domain_config(domain, template, env, files, cert_ok, custom, exits)
    IN  /\ output = NoOutput
        /\ output' = [op |-> "make_domain_config", domain |-> domain,
                      value |-> [raised |-> made.raised, text |-> made.text]]
        /\ last_ensure' = made.ensure
        /\ files' = made.files
        /\ UNCHANGED <<inputs, update, local_conf>>

NextRender == \E d \in Domains, exits \in ExitCodes : CallMakeDomainConfig(d, exits)

SpecRender == InitRender /\ [][NextRender]_vars

\* The template with the four placeholders replaced by the domain's values,
\* token by token.
Substituted(d) ==
    [i \in 1..Len(template) |->
        IF template[i].tag = "$HOSTNAME" THEN Tok("domain", d, "")
        ELSE IF template[i].tag = "$ROOT" THEN PathText(get_web_root(d, files))
        ELSE IF template[i].tag = "$SSL_KEY" THEN PathText(last_ensure.ssl_key)
        ELSE IF template[i].tag = "$SSL_CERTIFICATE" THEN PathText(last_ensure.ssl_certificate)
        ELSE template[i]]

Proxied(d) == custom.exists /\ custom.yaml[d].present /\ custom.yaml[d].has_proxy

MarkerAt(text, i) == i \in 1..Len(text) /\ text[i].tag = "# ADDITIONAL DIRECTIVES HERE\n"

WithBlockAfter(text, i, target) ==
    SubSeq(text, 1, i) \o <<ProxyBlock(target)>> \o SubSeq(text, i + 1, Len(text))

Init ==
    /\ env = [PRIMARY_HOSTNAME |-> NumDomains]
    /\ mail_domains = Domains \ {env.PRIMARY_HOSTNAME}
    /\ dns = NoDns
    /\ \E keys \in {{}, Domains \ {env.PRIMARY_HOSTNAME}} :
          files = SetUpFiles \cup {alt_key_path(d) : d \in keys}
    /\ cert_ok \in SUBSET (Domains \ {env.PRIMARY_HOSTNAME})
    /\ custom = NoCustomFile
    /\ template = NginxTemplate
    /\ local_conf = NoFile
    /\ pc = "idle"
    /\ domains = <<>>
    /\ idx = 1
    /\ nginx_conf = <<>>
    /\ result = "none"
    /\ output = NoOutput
    /\ last_ensure = NoEnsure
    /\ call = NoCall
    /\ prev_call = NoPrevCall
    /\ changed = FALSE
    /\ stale = FALSE
    /\ ncalls = 0
    /\ nchanges = 0

\* Lines 43-47: read the two configuration files and select the domains.
Begin ==
    /\ pc = "idle"
    /\ pc' = "render"
    /\ domains' = get_web_domains(env, mail_domains, dns)
    /\ idx' = 1
    /\ nginx_conf' = NginxTop
    /\ result' = "running"
    /\ prev_call' = [status |-> result, writes |-> call.writes, reloads |-> call.reloads]
    /\ call' = [writes |-> 0, reloads |-> 0, attempted |-> <<>>, file_before |-> local_conf,
                files_before |-> files, consecutive |-> (result # "none" /\ ~changed),
                after_failed_reload |-> stale]
    /\ changed' = FALSE
    /\ last_ensure' = NoEnsure
    /\ UNCHANGED <<inputs, files, local_conf, output, stale>>
    /\ ncalls < MaxCalls
    /\ ncalls' = ncalls + 1
    /\ UNCHANGED nchanges

\* The variant that goes on to the next domain when openssl fails.
RenderDomainKeepsGoing(exits) ==
    LET made == make_domain_config(domains[idx], template, env, files, cert_ok, custom, exits)
    IN  /\ pc = "render"
        /\ idx <= Len(domains)
        /\ files' = made.files
        /\ last_ensure' = made.ensure
        /\ call' = [call EXCEPT !.attempted = Append(@, domains[idx])]
        /\ nginx_conf' = nginx_conf \o made.text
        /\ idx' = idx + 1
        /\ result' = IF made.raised = "" THEN result ELSE made.raised
        /\ UNCHANGED <<pc, inputs, domains, local_conf, output, prev_call, changed, stale>>
        /\ UNCHANGED <<ncalls, nchanges>>

\* Line 48: one turn of the loop.
RenderDomain(exits) ==
    LET made == make_domain_config(domains[idx], template, env, files, cert_ok, custom, exits)
    IN  /\ pc = "render"
        /\ idx <= Len(domains)
        /\ files' = made.files
        /\ last_ensure' = made.ensure
        /\ call' = [call EXCEPT !.attempted = Append(@, domains[idx])]
        /\ IF made.raised = ""
           THEN /\ nginx_conf' = nginx_conf \o made.text
                /\ idx' = idx + 1
                /\ UNCHANGED <<pc, result>>
           ELSE /\ pc' = "idle"
                /\ result' = made.raised
                /\ UNCHANGED <<nginx_conf, idx>>
        /\ UNCHANGED <<inputs, domains, local_conf, output, prev_call, changed, stale>>
        /\ UNCHANGED <<ncalls, nchanges>>

\* The variant that writes without looking at the file.
CompareNever ==
    /\ pc = "render"
    /\ idx > Len(domains)
    /\ pc' = "open"
    /\ UNCHANGED <<inputs, files, local_conf, domains, idx, nginx_conf, result, output,
                   last_ensure, call, prev_call, changed, stale>>
    /\ UNCHANGED <<ncalls, nchanges>>

\* Lines 51-55: the loop is over; return "" when the file holds the text.
Compare ==
    /\ pc = "render"
    /\ idx > Len(domains)
    /\ IF local_conf.exists /\ local_conf.text = nginx_conf
       THEN pc' = "idle" /\ result' = ""
       ELSE pc' = "open" /\ UNCHANGED result
    /\ UNCHANGED <<inputs, files, local_conf, domains, idx, nginx_conf, output,
                   last_ensure, call, prev_call, changed, stale>>
    /\ UNCHANGED <<ncalls, nchanges>>

\* Line 58: open(nginx_conf_fn, "w") creates the file or truncates it.
Open ==
    /\ pc = "open"
    /\ local_conf' = File(<<>>)
    /\ call' = [call EXCEPT !.writes = @ + 1]
    /\ pc' = "write"
    /\ UNCHANGED <<inputs, files, domains, idx, nginx_conf, result, output, last_ensure,
                   prev_call, changed, stale>>
    /\ UNCHANGED <<ncalls, nchanges>>

\* Line 59: the text reaches the file.
Write ==
    /\ pc = "write"
    /\ local_conf' = File(nginx_conf)
    /\ pc' = "reload"
    /\ UNCHANGED <<inputs, files, domains, idx, nginx_conf, result, output, last_ensure,
                   call, prev_call, changed, stale>>
    /\ UNCHANGED <<ncalls, nchanges>>

\* Line 59: the write fails or is interrupted with only n tokens in the file:
\* nothing, or no more than the text of nginx-top.conf.
WriteFails(n) ==
    /\ pc = "write"
    /\ n < Len(nginx_conf)
    /\ local_conf' = File(SubSeq(nginx_conf, 1, n))
    /\ pc' = "idle"
    /\ result' = "OSError: write"
    /\ UNCHANGED <<inputs, files, domains, idx, nginx_conf, output, last_ensure,
                   call, prev_call, changed, stale>>
    /\ UNCHANGED <<ncalls, nchanges>>

\* Lines 65-67: service nginx reload exits with 0.
Reload ==
    /\ pc = "reload"
    /\ call' = [call EXCEPT !.reloads = @ + 1]
    /\ pc' = "idle"
    /\ result' = "web updated\n"
    /\ stale' = FALSE
    /\ UNCHANGED <<inputs, files, local_conf, domains, idx, nginx_conf, output,
                   last_ensure, prev_call, changed>>
    /\ UNCHANGED <<ncalls, nchanges>>

\* The variant that puts the previous file back when the reload fails.
ReloadFailsRollsBack ==
    /\ pc = "reload"
    /\ call' = [call EXCEPT !.reloads = @ + 1]
    /\ pc' = "idle"
    /\ result' = "CalledProcessError: service"
    /\ stale' = TRUE
    /\ local_conf' = call.file_before
    /\ UNCHANGED <<inputs, files, domains, idx, nginx_conf, output,
                   last_ensure, prev_call, changed>>
    /\ UNCHANGED <<ncalls, nchanges>>

\* Line 65: service nginx reload exits with a non-zero status; check_call raises.
ReloadFails ==
    /\ pc = "reload"
    /\ call' = [call EXCEPT !.reloads = @ + 1]
    /\ pc' = "idle"
    /\ result' = "CalledProcessError: service"
    /\ stale' = TRUE
    /\ UNCHANGED <<inputs, files, local_conf, domains, idx, nginx_conf, output,
                   last_ensure, prev_call, changed>>
    /\ UNCHANGED <<ncalls, nchanges>>

\* Between two calls the administrator adds or removes a mail domain.
SetMailDomain(d) ==
    /\ pc = "idle"
    /\ mail_domains' = IF d \in mail_domains THEN mail_domains \ {d} ELSE mail_domains \cup {d}
    /\ changed' = TRUE
    /\ stale' = FALSE
    /\ UNCHANGED <<env, dns, cert_ok, custom, template, files, local_conf, pc, domains, idx,
                   nginx_conf, result, output, last_ensure, call, prev_call>>
    /\ nchanges < MaxChanges
    /\ nchanges' = nchanges + 1
    /\ UNCHANGED ncalls

\* Between two calls the administrator rewrites custom.yaml.
SetCustom(c) ==
    /\ pc = "idle"
    /\ c # custom
    /\ custom' = c
    /\ changed' = TRUE
    /\ stale' = FALSE
    /\ UNCHANGED <<env, mail_domains, dns, cert_ok, template, files, local_conf, pc, domains,
                   idx, nginx_conf, result, output, last_ensure, call, prev_call>>
    /\ nchanges < MaxChanges
    /\ nchanges' = nchanges + 1
    /\ UNCHANGED ncalls

Next ==
    \/ Begin
    \/ \E exits \in ExitCodes : RenderDomain(exits)
    \/ Compare
    \/ Open
    \/ Write
    \/ \E n \in 0..Len(NginxTop) : WriteFails(n)
    \/ Reload
    \/ ReloadFails
    \/ \E d \in Domains : SetMailDomain(d)
    \/ \E c \in {NoCustomFile, CustomFile([d \in Domains |-> IF d = 1 THEN EntryWithProxy(ProxyTarget) ELSE NoEntry])} :
          SetCustom(c)

Spec == Init /\ [][Next]_vars

C7_AtomicReplace ==
    prev_call.status = "web updated\n" =>
        \/ local_conf = call.file_before
        \/ local_conf = File(nginx_conf)

\* C8 as stated: make_domain_config never calls
\* ensure_ssl_certificate_exists with a domain other than the primary
\* hostname and the primary certificate path.
C8_BranchUnreachable ==
    ~(/\ last_ensure.domain \in Domains \ {env.PRIMARY_HOSTNAME}
      /\ last_ensure.ssl_certificate = Path("ssl", NoDomain, "ssl_certificate.pem"))

\* C8 as amended: make_domain_config calls ensure_ssl_certificate_exists with
\* a domain other than the primary hostname and the primary certificate path
\* exactly when that domain has no key file of its own and the checker
\* reports the primary certificate OK for it; the call then invokes no tool.
C8_BranchTaken ==
    last_ensure.domain \in Domains \ {env.PRIMARY_HOSTNAME} =>
        /\ (last_ensure.ssl_certificate = Path("ssl", NoDomain, "ssl_certificate.pem"))
              <=> (~last_ensure.alt_key /\ last_ensure.check = "OK")
        /\ last_ensure.ssl_certificate = Path("ssl", NoDomain, "ssl_certificate.pem") =>
              (last_ensure.calls = <<>> /\ ~last_ensure.raised)

\* The loop rendered a mail domain that reuses the primary certificate.
C8_Witness ==
    /\ pc = "render"
    /\ last_ensure.domain \in mail_domains \ {env.PRIMARY_HOSTNAME}
    /\ last_ensure.ssl_certificate = ssl_certificate_primary
    /\ last_ensure.calls = <<>>

\* C9: when the reload fails in a call that wrote the file, the call raises
\* with the new text in the file; every later call with unchanged inputs
\* returns "" without a write or a reload and leaves the file as it is.
C9_ReloadNotRetried ==
    /\ (pc = "idle" /\ result = "CalledProcessError: service") =>
          /\ call.writes = 1
          /\ call.reloads = 1
          /\ local_conf = File(nginx_conf)
          /\ local_conf # call.file_before
          /\ ~changed => stale
    /\ (pc = "idle" /\ call.after_failed_reload) =>
          /\ result = ""
          /\ call.writes = 0
          /\ call.reloads = 0
          /\ local_conf = call.file_before
          /\ local_conf = File(nginx_conf)
          /\ ~changed => stale

\* The second call after the failed reload: it found the file identical too.
C9_Witness ==
    /\ pc = "idle"
    /\ call.after_failed_reload
    /\ prev_call.status = ""
    /\ result = ""
    /\ Len(domains) > 1

\* C10: when an openssl invocation fails for a domain, do_web_update raises
\* there: no later domain is rendered or provisioned, the file is not written
\* and holds what it held before the call, and nginx is not reloaded.
C10_OpensslFailureAborts ==
    last_ensure.raised =>
        /\ pc = "idle"
        /\ result = "CalledProcessError: openssl"
        /\ call.writes = 0
        /\ call.reloads = 0
        /\ local_conf = call.file_before
        /\ call.attempted = SubSeq(domains, 1, Len(call.attempted))
        /\ call.attempted[Len(call.attempted)] = last_ensure.domain
        /\ \A d \in Domains :
              (\E j \in (Len(call.attempted) + 1)..Len(domains) : domains[j] = d) =>
                  domain_certificate_path(d) \in files
                      <=> domain_certificate_path(d) \in call.files_before

\* The self-signing failed for a domain that is not the last of the list.
C10_Witness ==
    /\ last_ensure.raised
    /\ Len(last_ensure.calls) = 2
    /\ Len(call.attempted) > 1
    /\ Len(call.attempted) < Len(domains)

====
